---- MODULE Spec2Model ----
(***************************************************************************)
(* Model of fenics_service/main.py: the job store (_jobs), the job runner  *)
(* (_run_job with its progress throttle set_progress), the status query    *)
(* (get_job) and the result synthesis (_build_stub_results,                *)
(* _build_stress_strain_curve, _build_time_series,                         *)
(* _estimate_allowable_stress).                                            *)
(*                                                                         *)
(* Python floats are represented as fixed-point integers with three        *)
(* decimal digits (1.0 is Unit); products and quotients are rounded down.  *)
(* Optional values are sequences: None is <<>>, a present value v is <<v>>. *)
(***************************************************************************)
EXTENDS Integers, Sequences, FiniteSets, TLC

VARIABLES
    jobs,       \* _jobs: job identifier -> JobStatus record
    task,       \* per job: the locals of its _run_job call and its position
    now,        \* time.monotonic(), in thousandths of a second
    response,   \* the last answer of get_job
    call,       \* per job: the last set_progress call (its argument, last_progress before)
    stubIn,     \* arguments of the direct _build_stub_results calls
    stubOut     \* results of the direct _build_stub_results calls

vars == <<jobs, task, now, response, call, stubIn, stubOut>>

-----------------------------------------------------------------------------
(* Fixed-point arithmetic standing for float arithmetic                    *)

Unit == 10 * 10 * 10

None == <<>>

Some(v) == <<v>>

\* Python's `x or default` on an Optional[float]: None and 0.0 are both falsy.
OrDefault(opt, default) == IF opt = None THEN default ELSE IF opt[1] = 0 THEN default ELSE opt[1]

\* Python's `x if x is not None else default`.
IfNone(opt, default) == IF opt = None THEN default ELSE opt[1]

\* Python's truth value of an Optional[float].
Truthy(opt) == IF opt = None THEN FALSE ELSE opt[1] # 0

FMax(a, b) == IF a >= b THEN a ELSE b

FMin(a, b) == IF a <= b THEN a ELSE b

\* a * b, split so that the intermediate product stays small.
FMul(a, b) == (a \div Unit) * b + ((a % Unit) * b) \div Unit

\* a / b for b # 0.
FDiv(a, b) == IF b > 0 THEN (a * Unit) \div b ELSE ((0 - a) * Unit) \div (0 - b)

RECURSIVE SeqMax(_)
SeqMax(s) == IF Len(s) = 1 THEN s[1] ELSE FMax(s[1], SeqMax(Tail(s)))

RECURSIVE SeqMin(_)
SeqMin(s) == IF Len(s) = 1 THEN s[1] ELSE FMin(s[1], SeqMin(Tail(s)))

RECURSIVE SeqSum(_)
SeqSum(s) == IF s = <<>> THEN 0 ELSE s[1] + SeqSum(Tail(s))

-----------------------------------------------------------------------------
(* Library functions the code calls: math.sin, math.exp, random.Random     *)

\* math.pi, in thousandths.
Pi == 3141

\* math.sin: the Bhaskara rational approximant on [0, pi], extended by
\* sin(x + pi) = -sin(x) and the period 2 pi.
HalfWave(y) == (16 * y * (Pi - y)) \div ((5 * Pi * Pi - 4 * y * (Pi - y)) \div Unit)

MathSin(x) == LET y == x % (2 * Pi) IN IF y <= Pi THEN HalfWave(y) ELSE 0 - HalfWave(y - Pi)

\* The largest float argument math.exp accepts (709.782...): above it the
\* call raises OverflowError.
ExpMax == 709782

MathExpRaises(x) == x > ExpMax

RECURSIVE ExpSeries(_, _, _, _)
ExpSeries(y, n, term, acc) ==
    IF term = 0 THEN acc ELSE ExpSeries(y, n + 1, FMul(term, y) \div n, acc + term)

\* math.exp for an argument that does not raise: the Taylor series for x >= 0
\* and its reciprocal for x < 0.
MathExp(x) == IF x >= 0 THEN ExpSeries(x, 1, Unit, 0) ELSE FDiv(Unit, ExpSeries(0 - x, 1, Unit, 0))

\* random.Random(seed): the generator's state is a function of the seed string
\* alone (CPython hashes the string with SHA-512).
RandomSeedState(seed) ==
    CASE seed = "job-a" -> 17
      [] seed = "job-a_curve" -> 401
      [] seed = "job-b" -> 59
      [] seed = "job-b_curve" -> 733
      [] OTHER -> 1

\* One step of the generator.
RandomNext(state) == (state * 421 + 211) % 1009

\* The value random() returns in the state reached, in [0, 1).
RandomValue(state) == (state * Unit) \div 1009

\* rng.uniform(a, b) == a + (b - a) * random(), for the state reached.
Uniform(state, a, b) == a + FMul(b - a, RandomValue(state))

-----------------------------------------------------------------------------
(* Result synthesis                                                        *)

\* A generator that is not seeded from the job identifier: random.Random()
\* takes its seed from the clock.
RandomUnseeded(job_id, suffix) == (now + 7) % 1009

\* The generator a synthesis function creates: random.Random(job_id) and
\* random.Random(job_id + "_curve").
Random(job_id, suffix) == RandomSeedState(job_id \o suffix)

RECURSIVE CurveStresses(_)
CurveStresses(curve) ==
    IF curve = <<>> THEN <<>> ELSE <<curve[1].stress>> \o CurveStresses(Tail(curve))

RECURSIVE CurveStrains(_)
CurveStrains(curve) ==
    IF curve = <<>> THEN <<>> ELSE <<curve[1].strain>> \o CurveStrains(Tail(curve))

\* _estimate_allowable_stress without its reference-curve branch.
EstimateAllowableStressNoCurve(payload, max_stress) == FMul(max_stress, 1200)

\* _estimate_allowable_stress
EstimateAllowableStress(payload, max_stress) ==
    IF payload.curve # <<>>
    THEN FMul(SeqMax(CurveStresses(payload.curve)), 900)
    ELSE FMul(max_stress, 1200)

\* allowable_stress / max_stress if max_stress > 0 else 0.0
SafetyFactor(payload, max_stress) ==
    IF max_stress > 0 THEN FDiv(EstimateAllowableStress(payload, max_stress), max_stress) ELSE 0

\* _build_stress_strain_curve raises ZeroDivisionError at
\* max_stress / max_curve_stress.
CurveRaises(payload, max_stress) ==
    /\ payload.curve # <<>>
    /\ Truthy(max_stress)
    /\ SeqMax(CurveStresses(payload.curve)) = 0

\* The loop of _build_stress_strain_curve over the reference points.
RECURSIVE DenseCurve(_, _, _, _)
DenseCurve(curve, rng, stress_scale, strain_scale) ==
    IF curve = <<>> THEN <<>>
    ELSE LET state == RandomNext(rng)
             point == curve[1]
             noise == FMul(Uniform(state, -15, 15), point.stress)
         IN  <<[strain |-> FMul(point.strain, strain_scale),
                stress |-> FMax(0, FMul(point.stress, stress_scale) + noise)]>>
             \o DenseCurve(Tail(curve), state, stress_scale, strain_scale)

\* _build_stress_strain_curve, when it does not raise.
BuildStressStrainCurve(job_id, payload, max_stress) ==
    IF payload.curve = <<>> THEN <<[strain |-> 0, stress |-> 0]>>
    ELSE LET applied_load == IfNone(payload.appliedLoad, 1000 * Unit)
             load_factor == FMax(600, FMin(1600, FDiv(applied_load, 1000 * Unit)))
             max_curve_stress == SeqMax(CurveStresses(payload.curve))
             stress_scale == IF Truthy(max_stress)
                             THEN FDiv(max_stress[1], max_curve_stress)
                             ELSE load_factor
             strain_scale == Unit + FMul(OrDefault(payload.dampingRatio, 50), 200)
         IN  DenseCurve(payload.curve, Random(job_id, "_curve"), stress_scale, strain_scale)

\* points = 40
Points == 40

\* The callback cadence: index % 4 == 0.
Cadence == 4

\* time_value = duration * index / max(points - 1, 1)
TimeValue(payload, index) ==
    (OrDefault(payload.duration, 10 * Unit) * index) \div FMax(Points - 1, 1)

\* math.exp(-damping * time_value) raises OverflowError at this index.
TimeSeriesRaisesAt(payload, index) ==
    MathExpRaises(FMul(0 - OrDefault(payload.dampingRatio, 50), TimeValue(payload, index)))

\* Some iteration lo..hi of the loop of _build_time_series raises.
TimeSeriesRaisesIn(payload, lo, hi) ==
    \E index \in lo..hi : index >= 0 /\ index < Points /\ TimeSeriesRaisesAt(payload, index)

\* base = (max_stress or 100.0) * 0.35
BaseStress(max_stress) == FMul(OrDefault(max_stress, 100 * Unit), 350)

\* amplitude = (max_stress or 100.0) * 0.65
Amplitude(max_stress) == FMul(OrDefault(max_stress, 100 * Unit), 650)

\* The loop of _build_time_series from iteration index on.
RECURSIVE TimeSeriesLoop(_, _, _, _)
TimeSeriesLoop(payload, max_stress, index, rng) ==
    IF index >= Points THEN <<>>
    ELSE LET duration == OrDefault(payload.duration, 10 * Unit)
             frequency == OrDefault(payload.frequency, Unit)
             damping == OrDefault(payload.dampingRatio, 50)
             time_value == TimeValue(payload, index)
             oscillation == MathSin(FDiv(FMul(FMul(2 * Pi, frequency), time_value), duration))
             decay == MathExp(FMul(0 - damping, time_value))
             s1 == RandomNext(rng)
             noise == FMul(Uniform(s1, -30, 30), Amplitude(max_stress))
             stress_value == BaseStress(max_stress)
                             + FMul(FMul(Amplitude(max_stress), oscillation), decay) + noise
             s2 == RandomNext(s1)
             displacement == FMul(FDiv(time_value, duration), 200) + Uniform(s2, -2, 2)
         IN  <<[time |-> time_value,
                stress |-> FMax(stress_value, 0),
                displacement |-> FMax(displacement, 0)]>>
             \o TimeSeriesLoop(payload, max_stress, index + 1, s2)

\* _build_time_series, when no iteration raises.
BuildTimeSeries(job_id, payload, max_stress) ==
    TimeSeriesLoop(payload, max_stress, 0, Random(job_id, ""))

\* progress_value = start + (end - start) * (index / max(points - 1, 1)), then int().
ProgressValue(start_progress, end_progress, index) ==
    start_progress + ((end_progress - start_progress) * index) \div FMax(Points - 1, 1)

\* _build_stub_results raises (its time series does; its curve has no target).
StubRaises(payload) == TimeSeriesRaisesIn(payload, 0, Points - 1)

\* _build_stub_results, when it does not raise.
BuildStubResults(job_id, payload) ==
    LET stress_strain_curve == BuildStressStrainCurve(job_id, payload, None)
        stresses == CurveStresses(stress_strain_curve)
        strains == CurveStrains(stress_strain_curve)
        max_stress == SeqMax(stresses)
        min_stress == SeqMin(stresses)
    IN  [maxStress |-> max_stress,
         minStress |-> min_stress,
         avgStress |-> SeqSum(stresses) \div Len(stresses),
         stressRange |-> max_stress - min_stress,
         maxDeformation |-> SeqMax(strains),
         maxStrain |-> SeqMax(strains),
         avgStrain |-> SeqSum(strains) \div Len(strains),
         safetyFactor |-> SafetyFactor(payload, max_stress),
         timeSeriesData |-> BuildTimeSeries(job_id, payload, Some(max_stress)),
         stressStrainCurve |-> stress_strain_curve,
         source |-> "fallback"]

-----------------------------------------------------------------------------
(* Inputs                                                                  *)

\* The job identifiers uuid.uuid4() hands out.
JobIds == {"job-a"}

\* Time passes on its own, outside the throttle's sleeps, in steps of a quarter
\* of a second, until MaxClock quarters have passed.
TickStep == Unit \div 4

MaxClock == 2

Defaults == [appliedLoad |-> None, duration |-> None, frequency |-> None,
             dampingRatio |-> None, curve |-> <<>>]

SteelCurve == <<[strain |-> 10, stress |-> 100 * Unit], [strain |-> 20, stress |-> 500 * Unit]>>

\* The requests submitted to create_job: no reference curve; a reference curve
\* with maximum stress 500; a compressive (negative) reference strain; a
\* damping ratio whose decay overflows math.exp; an all-zero reference curve;
\* every optional field set.
Payloads ==
    { Defaults,
      [Defaults EXCEPT !.curve = SteelCurve],
      [Defaults EXCEPT !.curve = <<[strain |-> -10, stress |-> 100 * Unit]>>],
      [Defaults EXCEPT !.curve = SteelCurve, !.dampingRatio = Some(-3000 * Unit)],
      [Defaults EXCEPT !.curve = <<[strain |-> 10, stress |-> 0]>>],
      [appliedLoad |-> Some(2000 * Unit), duration |-> Some(0), frequency |-> Some(2 * Unit),
       dampingRatio |-> Some(500), curve |-> SteelCurve] }

\* What the solver's fields give for lines 168-184: a loaded body and an
\* unloaded one.
SolverSummaries ==
    { [max_stress |-> 250 * Unit, min_stress |-> 50 * Unit, avg_stress |-> 120 * Unit,
       max_strain |-> 30, avg_strain |-> 12, max_deformation |-> 4,
       hotspot_location |-> <<Unit, Unit, Unit>>],
      [max_stress |-> 0, min_stress |-> 0, avg_stress |-> 0,
       max_strain |-> 0, avg_strain |-> 0, max_deformation |-> 0,
       hotspot_location |-> <<0, 0, 0>>] }

-----------------------------------------------------------------------------
(* The job store and the runner                                            *)

\* JobStatus(id=job_id, status="running", progress=5)
InitialProgress == 5

NewJobStatus(job_id) ==
    [id |-> job_id, status |-> "running", progress |-> InitialProgress,
     results |-> None, error |-> None]

\* min_tick_seconds = 0.5
MinTick == 500

\* status.progress = min(value, 99)
ProgressCap == 99

\* status.progress = 100
Complete == 100

\* set_progress without `max(int(value), last_progress)`.
ThrottleValueNoMax(value, last_progress) == FMin(value, ProgressCap)

\* set_progress: the value it writes to status.progress and last_progress.
ThrottleValue(value, last_progress) == FMin(FMax(value, last_progress), ProgressCap)

\* set_progress: the time at which it writes, after time.sleep().
Wake(t) == IF now - t.last_tick < MinTick THEN t.last_tick + MinTick ELSE now

\* set_progress(value) of job j: the record, the clock; the runner's locals
\* after it are SetLocals.
SetLocals(t, value) ==
    [t EXCEPT !.last_progress = ThrottleValue(value, t.last_progress), !.last_tick = Wake(t)]

SetProgress(j, value) ==
    /\ jobs' = [jobs EXCEPT ![j].progress = ThrottleValue(value, task[j].last_progress)]
    /\ now' = Wake(task[j])
    /\ call' = [call EXCEPT ![j] = [n |-> call[j].n + 1, value |-> value,
                                    last |-> task[j].last_progress]]

\* The dictionary _solve_with_fenics returns.
SolverResults(job_id, payload, summary) ==
    [maxStress |-> summary.max_stress,
     minStress |-> summary.min_stress,
     avgStress |-> summary.avg_stress,
     stressRange |-> summary.max_stress - summary.min_stress,
     maxDeformation |-> summary.max_deformation,
     maxStrain |-> summary.max_strain,
     avgStrain |-> summary.avg_strain,
     safetyFactor |-> SafetyFactor(payload, summary.max_stress),
     timeSeriesData |-> BuildTimeSeries(job_id, payload, Some(summary.max_stress)),
     stressStrainCurve |-> BuildStressStrainCurve(job_id, payload, Some(summary.max_stress)),
     hotspots |-> <<[type |-> "max_stress", value |-> summary.max_stress,
                     location |-> summary.hotspot_location]>>,
     source |-> "fenics"]

\* The fallback results without line 94.
FallbackResultsNoWarning(job_id, payload) == BuildStubResults(job_id, payload)

\* fallback = _build_stub_results(...); fallback["warning"] = "..."
FallbackResults(job_id, payload) ==
    [warning |-> "FEniCS unavailable, using fallback results."] @@ BuildStubResults(job_id, payload)

Keep == UNCHANGED <<stubIn, stubOut>>

\* create_job
CreateJob(payload) ==
    /\ \E job_id \in JobIds \ DOMAIN jobs :
          /\ jobs' = jobs @@ (job_id :> NewJobStatus(job_id))
          /\ task' = task @@ (job_id :> [pc |-> "scheduled", payload |-> payload,
                                         last_progress |-> 0, last_tick |-> 0,
                                         mode |-> "solver", index |-> 0,
                                         summary |-> None, results |-> None])
          /\ call' = call @@ (job_id :> [n |-> 0, value |-> 0, last |-> 0])
          /\ response' = [code |-> 200, body |-> NewJobStatus(job_id)]
    /\ UNCHANGED now
    /\ Keep

\* get_job
GetJob(job_id) ==
    /\ response' = IF job_id \in DOMAIN jobs
                   THEN [code |-> 200, body |-> jobs[job_id]]
                   ELSE [code |-> 404, body |-> None]
    /\ UNCHANGED <<jobs, task, now, call>>
    /\ Keep

\* time passing
Tick ==
    /\ now < MaxClock * TickStep
    /\ now' = now + TickStep
    /\ UNCHANGED <<jobs, task, response, call>>
    /\ Keep

\* _run_job, lines 68-71
RunJobStart(j) ==
    /\ task[j].pc = "scheduled"
    /\ task' = [task EXCEPT ![j].pc = "set8", ![j].last_progress = jobs[j].progress,
                            ![j].last_tick = now]
    /\ UNCHANGED <<jobs, now, response, call>>
    /\ Keep

\* set_progress(8)
RunJobFirstProgress(j) ==
    /\ task[j].pc = "set8"
    /\ SetProgress(j, 8)
    /\ task' = [task EXCEPT ![j] = [SetLocals(@, 8) EXCEPT !.pc = "mesh"]]
    /\ UNCHANGED response
    /\ Keep

\* The checkpoint _solve_with_fenics reports when its stage returns.
Checkpoint(pc) ==
    CASE pc = "mesh" -> 12 [] pc = "assemble" -> 35 [] pc = "solve" -> 55 [] pc = "project" -> 70

NextStage(pc) ==
    CASE pc = "mesh" -> "assemble" [] pc = "assemble" -> "solve" [] pc = "solve" -> "project"
      [] pc = "project" -> "post"

SolverStages == {"mesh", "assemble", "solve", "project"}

\* _solve_with_fenics: a stage returns and progress_cb reports it
SolverCheckpoint(j) ==
    /\ task[j].pc \in SolverStages
    /\ SetProgress(j, Checkpoint(task[j].pc))
    /\ task' = [task EXCEPT ![j] = [SetLocals(@, Checkpoint(@.pc)) EXCEPT !.pc = NextStage(@)]]
    /\ UNCHANGED response
    /\ Keep

\* _solve_with_fenics, lines 168-186: the field summaries, then progress_cb(80)
SolverSummarise(j) ==
    /\ task[j].pc = "post"
    /\ \E summary \in SolverSummaries :
          task' = [task EXCEPT ![j] = [SetLocals(@, 80) EXCEPT !.pc = "curve",
                                                               !.summary = Some(summary)]]
    /\ SetProgress(j, 80)
    /\ UNCHANGED response
    /\ Keep

\* _solve_with_fenics: the import of dolfin or a call into it raises
SolverRaise(j) ==
    /\ task[j].pc \in SolverStages \cup {"post"}
    /\ task' = [task EXCEPT ![j].pc = "except"]
    /\ UNCHANGED <<jobs, now, response, call>>
    /\ Keep

\* the except clause: set_progress(70)
RunJobExcept(j) ==
    /\ task[j].pc = "except"
    /\ SetProgress(j, 70)
    /\ task' = [task EXCEPT ![j] = [SetLocals(@, 70) EXCEPT !.pc = "curve", !.mode = "fallback",
                                                               !.index = 0]]
    /\ UNCHANGED response
    /\ Keep

\* Where an exception raised in the given mode goes: the solver path is inside
\* the try block, the fallback is not.
RaiseTo(mode) == IF mode = "solver" THEN "except" ELSE "raised"

\* The target stress _build_stress_strain_curve and _build_time_series get.
Target(t) == IF t.mode = "solver" THEN Some(t.summary[1].max_stress) ELSE None

\* _build_stress_strain_curve(job_id, payload, max_stress), line 188 or 225
BuildCurve(j) ==
    /\ task[j].pc = "curve"
    /\ task' = [task EXCEPT ![j].pc = IF CurveRaises(task[j].payload, Target(task[j]))
                                      THEN RaiseTo(task[j].mode) ELSE "series",
                            ![j].index = 0]
    /\ UNCHANGED <<jobs, now, response, call>>
    /\ Keep

\* progress_range: (80, 95) from _solve_with_fenics, (70, 95) from _build_stub_results
RangeStart(mode) == IF mode = "solver" THEN 80 ELSE 70

RangeEnd(mode) == 95

\* _build_time_series: the iterations up to the next one with index % 4 == 0,
\* then progress_cb
TimeSeriesStep(j) ==
    /\ task[j].pc = "series"
    /\ task[j].index < Points
    /\ IF TimeSeriesRaisesIn(task[j].payload, task[j].index - Cadence + 1, task[j].index)
       THEN /\ task' = [task EXCEPT ![j].pc = RaiseTo(task[j].mode)]
            /\ UNCHANGED <<jobs, now, call>>
       ELSE LET value == ProgressValue(RangeStart(task[j].mode), RangeEnd(task[j].mode),
                                       task[j].index)
            IN  /\ SetProgress(j, value)
                /\ task' = [task EXCEPT ![j] = [SetLocals(@, value)
                                                  EXCEPT !.index = @ + Cadence]]
    /\ UNCHANGED response
    /\ Keep

\* _build_time_series: the last iterations and the return
TimeSeriesReturn(j) ==
    /\ task[j].pc = "series"
    /\ task[j].index >= Points
    /\ task' = [task EXCEPT ![j].pc =
                   IF TimeSeriesRaisesIn(task[j].payload, task[j].index - Cadence + 1, Points - 1)
                   THEN RaiseTo(task[j].mode)
                   ELSE IF task[j].mode = "solver" THEN "solved" ELSE "synthesised"]
    /\ UNCHANGED <<jobs, now, response, call>>
    /\ Keep

\* _solve_with_fenics, lines 196-217: progress_cb(95) and the return
SolverReturn(j) ==
    /\ task[j].pc = "solved"
    /\ SetProgress(j, 95)
    /\ task' = [task EXCEPT ![j] =
                   [SetLocals(@, 95) EXCEPT !.pc = "status",
                       !.results = Some(SolverResults(j, task[j].payload, task[j].summary[1]))]]
    /\ UNCHANGED response
    /\ Keep

\* _build_stub_results, lines 241-256, and the warning of line 94
FallbackReturn(j) ==
    /\ task[j].pc = "synthesised"
    /\ task' = [task EXCEPT ![j].pc = "status",
                            ![j].results = Some(FallbackResults(j, task[j].payload))]
    /\ UNCHANGED <<jobs, now, response, call>>
    /\ Keep

\* status.status = "completed"
WriteStatus(j) ==
    /\ task[j].pc = "status"
    /\ jobs' = [jobs EXCEPT ![j].status = "completed"]
    /\ task' = [task EXCEPT ![j].pc = "progress"]
    /\ UNCHANGED <<now, response, call>>
    /\ Keep

\* status.progress = 100
WriteProgress(j) ==
    /\ task[j].pc = "progress"
    /\ jobs' = [jobs EXCEPT ![j].progress = Complete]
    /\ task' = [task EXCEPT ![j].pc = "results"]
    /\ UNCHANGED <<now, response, call>>
    /\ Keep

\* status.results = results
WriteResults(j) ==
    /\ task[j].pc = "results"
    /\ jobs' = [jobs EXCEPT ![j].results = task[j].results]
    /\ task' = [task EXCEPT ![j].pc = "done"]
    /\ UNCHANGED <<now, response, call>>
    /\ Keep

\* One step of the background task of job j.
RunJob(j) ==
    /\ j \in DOMAIN task
    /\ \/ RunJobStart(j)
       \/ RunJobFirstProgress(j)
       \/ SolverCheckpoint(j)
       \/ SolverSummarise(j)
       \/ SolverRaise(j)
       \/ RunJobExcept(j)
       \/ BuildCurve(j)
       \/ TimeSeriesStep(j)
       \/ TimeSeriesReturn(j)
       \/ SolverReturn(j)
       \/ FallbackReturn(j)
       \/ WriteStatus(j)
       \/ WriteProgress(j)
       \/ WriteResults(j)

Init ==
    /\ jobs = <<>>
    /\ task = <<>>
    /\ now = 0
    /\ response = [code |-> 0, body |-> None]
    /\ call = <<>>
    /\ stubIn = None
    /\ stubOut = <<>>

Next ==
    \/ \E payload \in Payloads : CreateJob(payload)
    \/ \E job_id \in JobIds : GetJob(job_id)
    \/ Tick
    \/ \E j \in DOMAIN task : RunJobStart(j)
    \/ \E j \in DOMAIN task : RunJobFirstProgress(j)
    \/ \E j \in DOMAIN task : SolverCheckpoint(j)
    \/ \E j \in DOMAIN task : SolverSummarise(j)
    \/ \E j \in DOMAIN task : SolverRaise(j)
    \/ \E j \in DOMAIN task : RunJobExcept(j)
    \/ \E j \in DOMAIN task : BuildCurve(j)
    \/ \E j \in DOMAIN task : TimeSeriesStep(j)
    \/ \E j \in DOMAIN task : TimeSeriesReturn(j)
    \/ \E j \in DOMAIN task : SolverReturn(j)
    \/ \E j \in DOMAIN task : FallbackReturn(j)
    \/ \E j \in DOMAIN task : WriteStatus(j)
    \/ \E j \in DOMAIN task : WriteProgress(j)
    \/ \E j \in DOMAIN task : WriteResults(j)

Spec == Init /\ [][Next]_vars

\* The background task of a created job is scheduled until it ends, and the
\* solver call returns or raises.
FairSpec == Spec /\ \A j \in JobIds : WF_vars(RunJob(j))

-----------------------------------------------------------------------------
(* Direct calls of _build_stub_results(job_id, payload), progress_cb=None  *)

StubJobIds == {"job-a", "job-b"}

StubCurves ==
    { <<>>,
      SteelCurve,
      <<[strain |-> -10, stress |-> 100 * Unit]>>,
      <<[strain |-> 10, stress |-> 0], [strain |-> 20, stress |-> 0]>>,
      <<[strain |-> 0, stress |-> 0], [strain |-> 15, stress |-> -200 * Unit],
        [strain |-> 30, stress |-> 300 * Unit]>> }

\* Every reference curve and damping ratio with the other fields absent, and
\* every combination of the other fields for two of the curves.
StubPayloads ==
    [appliedLoad : {None}, duration : {None}, frequency : {None},
     dampingRatio : {None, Some(0), Some(500), Some(-50), Some(-3000 * Unit)},
     curve : StubCurves]
    \cup
    [appliedLoad : {Some(0), Some(500 * Unit), Some(2000 * Unit)},
     duration : {Some(0), Some(20 * Unit)},
     frequency : {None, Some(2 * Unit)},
     dampingRatio : {None, Some(500)},
     curve : {SteelCurve, <<[strain |-> -10, stress |-> 100 * Unit]>>}]

StubCalls == {1, 2}

StubInit ==
    /\ jobs = <<>>
    /\ task = <<>>
    /\ now = 0
    /\ response = [code |-> 0, body |-> None]
    /\ call = <<>>
    /\ stubIn \in [job_id : StubJobIds, payload : StubPayloads]
    /\ stubOut = [c \in StubCalls |-> None]

\* One call of _build_stub_results with the arguments drawn.
StubCall(c) ==
    /\ stubOut[c] = None
    /\ stubOut' = [stubOut EXCEPT ![c] =
          IF StubRaises(stubIn.payload)
          THEN Some([outcome |-> "raised", at |-> now])
          ELSE Some([outcome |-> "returned", at |-> now,
                     results |-> BuildStubResults(stubIn.job_id, stubIn.payload)])]
    /\ UNCHANGED <<jobs, task, now, response, call, stubIn>>

\* Time passing between the calls.
StubTick ==
    /\ now < MaxClock * TickStep
    /\ now' = now + TickStep
    /\ UNCHANGED <<jobs, task, response, call, stubIn, stubOut>>

StubNext ==
    \/ \E c \in StubCalls : StubCall(c)
    \/ StubTick

StubSpec == StubInit /\ [][StubNext]_vars

-----------------------------------------------------------------------------
(* Properties                                                              *)

\* The solver call of job j returned: the runner is at the terminal writes of
\* the try block.
SolverReturned(j) ==
    task[j].mode = "solver" /\ task[j].pc \in {"status", "progress", "results", "done"}

\* The solver call of job j raised: the except clause is entered.
SolverRaised(j) == task[j].pc = "except" \/ task[j].mode = "fallback"

\* The results a direct call c of _build_stub_results returned.
Returned(c) == stubOut[c] # None /\ stubOut[c][1].outcome = "returned"

\* C1: a status query that observes status = completed also observes the
\* results populated and progress = 100, whenever it runs during _run_job.
TerminalTransitionAtomic ==
    (response.code = 200 /\ response.body.status = "completed")
        => (response.body.results # None /\ response.body.progress = 100)

\* C2: the values written to a record's progress start at 5 and never
\* decrease; each value set_progress writes is max(last reported value,
\* min(candidate, 99)), so at most 99; 100 is written by the terminal
\* transition alone.
ProgressThrottled ==
    [][\A j \in DOMAIN jobs' :
          IF j \notin DOMAIN jobs
          THEN jobs'[j].progress = 5
          ELSE /\ jobs'[j].progress >= jobs[j].progress
               /\ call'[j].n # call[j].n =>
                     /\ jobs'[j].progress = FMax(jobs[j].progress, FMin(call'[j].value, 99))
                     /\ jobs'[j].progress <= 99
               /\ (jobs'[j].progress = 100 /\ jobs[j].progress # 100) =>
                     (call'[j].n = call[j].n /\ task[j].pc = "progress")]_vars

\* C2's case: the solver raised after it reported more than 70, the runner
\* called set_progress(70), and the record kept the larger value.
RaisedAboveSeventy ==
    \E j \in DOMAIN jobs :
        /\ task[j].mode = "fallback"
        /\ call[j].value = 70
        /\ call[j].last > 70
        /\ jobs[j].progress = call[j].last

\* C3: under fair scheduling of the runner every created job eventually has
\* status = completed, progress = 100 and results, and its status is only
\* ever running or completed.
EveryJobCompletes ==
    /\ [](\A j \in DOMAIN jobs : jobs[j].status \in {"running", "completed"})
    /\ \A j \in JobIds :
          (j \in DOMAIN jobs) ~>
              (/\ j \in DOMAIN jobs
               /\ jobs[j].status = "completed"
               /\ jobs[j].progress = 100
               /\ jobs[j].results # None)

\* C4: a record with results has either the solver's results (the call
\* returned, source "fenics", no warning) or the fallback's (the call raised,
\* source "fallback", a non-empty warning); the error field is never set.
FailureSignalledBySource ==
    \A j \in DOMAIN jobs :
        /\ jobs[j].error = None
        /\ jobs[j].results # None =>
              LET r == jobs[j].results[1]
              IN  \/ /\ SolverReturned(j)
                     /\ r.source = "fenics"
                     /\ "warning" \notin DOMAIN r
                  \/ /\ SolverRaised(j)
                     /\ r.source = "fallback"
                     /\ "warning" \in DOMAIN r
                     /\ r.warning # ""

\* C4's case: the solver raised and the record carries fallback results.
FallbackStored ==
    \E j \in DOMAIN jobs :
        /\ SolverRaised(j)
        /\ jobs[j].results # None
        /\ jobs[j].results[1].source = "fallback"

\* C5: once a record's status is completed, its status, progress and results
\* are never written again.
NoWriteAfterTerminal ==
    [][\A j \in DOMAIN jobs :
          jobs[j].status = "completed" =>
              /\ jobs'[j].status = "completed"
              /\ jobs'[j].progress = jobs[j].progress
              /\ jobs'[j].results = jobs[j].results]_vars

\* C6: when the runner of a job has ended, also by an exception of the
\* fallback, the record's status is completed.
RunnerEndsCompleted ==
    \A j \in DOMAIN task :
        task[j].pc \in {"done", "raised"} => jobs[j].status = "completed"

\* C7: every stress, strain and displacement value of a fallback result is
\* at least 0.
FallbackValuesNonNegative ==
    \A c \in DOMAIN stubOut :
        Returned(c) =>
            LET r == stubOut[c][1].results
            IN  /\ \A i \in DOMAIN r.stressStrainCurve :
                      r.stressStrainCurve[i].strain >= 0 /\ r.stressStrainCurve[i].stress >= 0
                /\ \A i \in DOMAIN r.timeSeriesData :
                      r.timeSeriesData[i].stress >= 0 /\ r.timeSeriesData[i].displacement >= 0
                /\ r.maxStress >= 0 /\ r.minStress >= 0 /\ r.avgStress >= 0
                /\ r.maxStrain >= 0 /\ r.avgStrain >= 0 /\ r.maxDeformation >= 0

\* C8: in both modes safetyFactor = allowableStress / maxStress when
\* maxStress > 0, else 0, with allowableStress = 0.9 x the reference curve's
\* maximum stress, or 1.2 x maxStress without a reference curve; a reference
\* maximum of 500 with maxStress 250 gives 1.8; an empty reference curve in
\* fallback mode gives maxStress = minStress = avgStress = safetyFactor = 0.
SafetyFactorRule ==
    \A j \in DOMAIN jobs :
        jobs[j].results # None =>
            LET r == jobs[j].results[1]
                curve == task[j].payload.curve
                allowable == IF curve # <<>>
                             THEN (9 * SeqMax(CurveStresses(curve))) \div 10
                             ELSE (12 * r.maxStress) \div 10
            IN  /\ r.safetyFactor = IF r.maxStress > 0
                                    THEN (allowable * Unit) \div r.maxStress
                                    ELSE 0
                /\ (curve # <<>> /\ SeqMax(CurveStresses(curve)) = 500 * Unit
                        /\ r.maxStress = 250 * Unit) =>
                      (allowable = 450 * Unit /\ 10 * r.safetyFactor = 18 * Unit)
                /\ (curve = <<>> /\ r.source = "fallback") =>
                      (r.maxStress = 0 /\ r.minStress = 0 /\ r.avgStress = 0
                          /\ r.safetyFactor = 0)

\* C8's case: a stored result for a reference maximum of 500 and maxStress 250.
SafetyFactorExample ==
    \E j \in DOMAIN jobs :
        /\ jobs[j].results # None
        /\ task[j].payload.curve = SteelCurve
        /\ jobs[j].results[1].maxStress = 250 * Unit
        /\ 10 * jobs[j].results[1].safetyFactor = 18 * Unit

TimeSeriesFromMaxStress ==
    \A c \in DOMAIN stubOut :
        Returned(c) =>
            LET r == stubOut[c][1].results
            IN  /\ BaseStress(Some(r.maxStress)) = (35 * r.maxStress) \div 100
                /\ Amplitude(Some(r.maxStress)) = (65 * r.maxStress) \div 100
                /\ r.maxStress = 0 =>
                      \A i \in DOMAIN r.timeSeriesData : r.timeSeriesData[i].stress = 0

====
